---------------------------- MODULE Spec2Model ----------------------------
(***************************************************************************)
(* Model of uncertainty_toolbox/metrics_scoring_rule.py: the four proper   *)
(* scoring rules nll_gaussian, crps_gaussian, check_score, interval_score. *)
(*                                                                         *)
(* One call of one scoring rule is a run of the state machine: the inputs  *)
(* are drawn in Init, and each statement group of the function is one      *)
(* action.  Floating point numbers are modelled by exact rationals         *)
(* <<numerator, denominator>> in lowest terms with a positive denominator. *)
(* The normal-distribution primitives of scipy / torch (pdf, cdf, ppf,     *)
(* log-density) are modelled by piecewise-linear interpolation of the      *)
(* standard normal tables on the knots z = 0, 1/2, 1, ...; the irrational  *)
(* constants are rounded to four decimals.                                 *)
(***************************************************************************)
EXTENDS Integers, Sequences, FiniteSets

(***************************************************************************)
(* Bounds of the model.                                                    *)
(***************************************************************************)
\* largest number of points N in one call
MaxN == 3
\* largest value of the `resolution` argument
MaxRes == 2

(***************************************************************************)
(* Exact rational arithmetic standing for the float arithmetic of the      *)
(* source.                                                                 *)
(***************************************************************************)
Abs(x) == IF x < 0 THEN -x ELSE x

RECURSIVE GCD(_, _)
GCD(a, b) == IF b = 0 THEN a ELSE GCD(b, a % b)

\* Op(a) and Op(a, b) with each argument evaluated once, before Op is applied (a
\* variable bound over a set holds a value, an operator argument an expression)
Strict1(Op(_), a) == CHOOSE r \in { Op(x) : x \in { a } } : TRUE

Strict2(Op(_, _), a, b) == CHOOSE r \in { Op(x, y) : x \in { a }, y \in { b } } : TRUE

\* the rational n/d in lowest terms, d # 0
Lowest(n, d) ==
    LET s == IF d < 0 THEN -1 ELSE 1
        g == GCD(Abs(n), Abs(d))
    IN  << (s * n) \div g, (s * d) \div g >>

R(n, d) == Strict2(Lowest, n, d)

\* an integer as a rational
I(n) == << n, 1 >>

Plus(x, y) ==
    LET g  == GCD(x[2], y[2])
        lx == y[2] \div g
        ly == x[2] \div g
    IN  Lowest(x[1] * lx + y[1] * ly, x[2] * lx)

RAdd(x, y) == Strict2(Plus, x, y)

Minus(x) == << -x[1], x[2] >>

RNeg(x) == Strict1(Minus, x)

RSub(x, y) == RAdd(x, RNeg(y))

Times(x, y) ==
    LET g1 == GCD(Abs(x[1]), y[2])
        g2 == GCD(Abs(y[1]), x[2])
    IN  IF x[1] = 0 \/ y[1] = 0
        THEN << 0, 1 >>
        ELSE << (x[1] \div g1) * (y[1] \div g2), (x[2] \div g2) * (y[2] \div g1) >>

RMul(x, y) == Strict2(Times, x, y)

Inverse(y) == Lowest(y[2], y[1])

\* x / y, y # 0
RDiv(x, y) == RMul(x, Strict1(Inverse, y))

RGe0(x) == x[1] >= 0

RGt0(x) == x[1] > 0

RLe(x, y) == RGe0(RSub(y, x))

Magnitude(x) == << Abs(x[1]), x[2] >>

RAbs(x) == Strict1(Magnitude, x)

RECURSIVE SumFrom(_, _)
SumFrom(s, k) == IF k > Len(s) THEN << 0, 1 >> ELSE RAdd(s[k], SumFrom(s, k + 1))

SumAll(s) == SumFrom(s, 1)

\* utils.sum_fn: the sum of a list / array / tensor of numbers
sum_fn(s) == Strict1(SumAll, s)

MeanAll(s) == RDiv(SumAll(s), I(Len(s)))

\* np.mean of a one-dimensional array
np_mean(s) == Strict1(MeanAll, s)

MeanRows(m) == [k \in 1..Len(m) |-> MeanAll(m[k])]

\* utils.mean_fn(m, 1): the mean along dimension 1 of a two-dimensional tensor
mean_fn_dim1(m) == Strict1(MeanRows, m)

(***************************************************************************)
(* The normal-distribution primitives.                                     *)
(***************************************************************************)
\* 100 * Phi(k/2) for k = 0..6, Phi the standard normal cdf (Phi(z) = 1 from z = 3)
CdfKnots == << 50, 69, 84, 93, 98, 99, 100 >>

\* 10000 * phi(k/2) for k = 0..8, phi the standard normal density (0 from z = 4)
PdfKnots == << 3989, 3521, 2420, 1295, 540, 175, 44, 9, 0 >>

\* 10000 * ln(s) for s = 1..4
LnKnots == << 0, 6931, 10986, 13863 >>

\* 1 / sqrt(pi)
InvSqrtPi == R(5642, 10000)

\* ln(sqrt(2 * pi))
LnSqrt2Pi == R(9189, 10000)

\* floor of a rational x >= 0
Floor(x) == x[1] \div x[2]

\* Phi(h/2) for h >= 0, interpolated between the knots
CdfUpper(h) ==
    LET k == Floor(h)
    IN  IF k >= 6
        THEN I(1)
        ELSE RDiv(RAdd(I(CdfKnots[k + 1]),
                       RMul(RSub(h, I(k)), I(CdfKnots[k + 2] - CdfKnots[k + 1]))), I(100))

CdfAt(z) ==
    IF RGe0(z)
    THEN Strict1(CdfUpper, RMul(I(2), RAbs(z)))
    ELSE RSub(I(1), Strict1(CdfUpper, RMul(I(2), RAbs(z))))

\* standard normal cdf
StdCdf(z) == Strict1(CdfAt, z)

\* phi(h/2) for h >= 0, interpolated between the knots
PdfUpper(h) ==
    LET k == Floor(h)
    IN  IF k >= 8
        THEN I(0)
        ELSE RDiv(RAdd(I(PdfKnots[k + 1]),
                       RMul(RSub(h, I(k)), I(PdfKnots[k + 2] - PdfKnots[k + 1]))), I(10000))

PdfAt(z) == Strict1(PdfUpper, RMul(I(2), RAbs(z)))

\* standard normal density
StdPdf(z) == Strict1(PdfAt, z)

\* the knot k with Phi(k/2) <= c/100 < Phi((k+1)/2), for 50 <= c < 100
KnotBelow(c) ==
    CHOOSE j \in 0..5 :
        /\ RLe(I(CdfKnots[j + 1]), c)
        /\ (j = 5 \/ ~RLe(I(CdfKnots[j + 2]), c))

PpfBetween(c, k) ==
    RDiv(RAdd(I(k), RDiv(RSub(c, I(CdfKnots[k + 1])),
                         I(CdfKnots[k + 2] - CdfKnots[k + 1]))), I(2))

PpfUpper(c) == Strict2(PpfBetween, c, KnotBelow(c))

\* standard normal quantile of a level 1/2 <= q < 1: the inverse of StdCdf
UpperPpf(q) == Strict1(PpfUpper, RMul(I(100), q))

PpfAt(q) ==
    IF RLe(R(1, 2), q)
    THEN UpperPpf(q)
    ELSE RNeg(Strict1(UpperPpf, RSub(I(1), q)))

\* standard normal quantile of a level 0 < q < 1
StdPpf(q) == Strict1(PpfAt, q)

\* scipy.stats.norm.ppf(q, loc, scale)
norm_ppf(q, loc, scale) == RAdd(I(loc), RMul(I(scale), StdPpf(q)))

\* torch.distributions.Normal(loc, scale).icdf(q)
Normal_icdf(q, loc, scale) == RAdd(I(loc), RMul(I(scale), StdPpf(q)))

\* log-density of Normal(0, scale) at x: -(x/scale)^2 / 2 - ln(scale) - ln(sqrt(2 pi))
LogDensityAt(z, scale) ==
    RSub(RSub(RNeg(RDiv(RMul(z, z), I(2))), R(LnKnots[scale], 10000)), LnSqrt2Pi)

LogDensity(x, scale) == Strict2(LogDensityAt, RDiv(x, I(scale)), scale)

\* scipy.stats.norm.logpdf(x, scale=scale)
norm_logpdf(x, scale) == LogDensity(x, scale)

\* torch.distributions.Normal(0, scale).log_prob(x)
Normal_log_prob(x, scale) == LogDensity(x, scale)

\* scipy.stats.norm.pdf(z, loc=0, scale=1)
norm_pdf(z) == StdPdf(z)

\* torch: Normal(0, 1).log_prob(z).exp()
Normal_log_prob_exp(z) == StdPdf(z)

\* scipy.stats.norm.cdf(z, loc=0, scale=1)
norm_cdf(z) == StdCdf(z)

\* torch: Normal(0, 1).cdf(z)
Normal_cdf(z) == StdCdf(z)

\* np.linspace / torch.linspace (start, stop, num), num >= 1
linspace(start, stop, num) ==
    [k \in 1..num |->
        IF num = 1
        THEN start
        ELSE IF k = num
             THEN stop
             ELSE RAdd(start, RMul(I(k - 1), RDiv(RSub(stop, start), I(num - 1))))]

(***************************************************************************)
(* Inputs.  An array is a record of its shape and its data in row-major    *)
(* order; the data are integers.                                           *)
(***************************************************************************)
\* the (y_pred, y_std, y_true) triples a point is drawn from
Points == { << 0, 1, 0 >>, << 0, 1, 1 >>, << 1, 2, -2 >> }

\* the (start, end) pairs of check_score (quantile levels) and interval_score
\* (coverage probabilities); every level lies strictly inside (0, 1)
GridEnds == { << R(1, 2), R(1, 2) >>, << R(1, 5), R(4, 5) >>, << R(2, 5), R(17, 25) >> }

RECURSIVE SeqsUpTo(_, _)
SeqsUpTo(S, n) ==
    IF n = 0
    THEN { << >> }
    ELSE LET prev == SeqsUpTo(S, n - 1)
         IN  prev \cup { Append(s, x) : s \in { t \in prev : Len(t) = n - 1 }, x \in S }

Datasets == { s \in SeqsUpTo(Points, MaxN) : Len(s) >= 1 }

Column(pts, c) == [i \in 1..Len(pts) |-> pts[i][c]]

Array1D(data) == [shape |-> << Len(data) >>, data |-> data]

\* the same data seen as an N x 1 matrix
Array2D(data) == [shape |-> << Len(data), 1 >>, data |-> data]

ShapeCases == { "flat", "matrix", "short" }

\* utils.assert_is_flat_same_shape: every argument is one-dimensional and all
\* shapes are equal
assert_is_flat_same_shape(a, b, c) ==
    /\ Len(a.shape) = 1
    /\ Len(b.shape) = 1
    /\ Len(c.shape) = 1
    /\ a.shape = b.shape
    /\ b.shape = c.shape

(***************************************************************************)
(* The per-point and per-level formulas.                                   *)
(***************************************************************************)
\* nll_gaussian, array branch: stats.norm.logpdf(residuals, scale=y_std)
nll_list_array(res, ys) == [i \in 1..Len(res) |-> norm_logpdf(res[i], ys[i])]

\* nll_gaussian, tensor branch: Normal(loc=0, scale=y_std).log_prob(residuals)
nll_list_tensor(res, ys) == [i \in 1..Len(res) |-> Normal_log_prob(res[i], ys[i])]

\* crps_gaussian: y_standardized of one point
y_standardized(p, s, t) == RDiv(I(t - p), I(s))

\* crps_point_array without the leading -1
crps_point_array_unnegated(p, s, t) ==
    LET z      == RDiv(I(t - p), I(s))
        term_1 == InvSqrtPi
        term_2 == RMul(I(2), StdPdf(z))
        term_3 == RMul(z, RSub(RMul(I(2), StdCdf(z)), I(1)))
    IN  RMul(I(s), RSub(RSub(term_1, term_2), term_3))

\* crps_point_array with term_3 = z * 2 * cdf(z), the "- 1" forgotten
crps_point_array_uncentred(p, s, t) ==
    LET z      == RDiv(I(t - p), I(s))
        term_1 == InvSqrtPi
        term_2 == RMul(I(2), StdPdf(z))
        term_3 == RMul(z, RMul(I(2), StdCdf(z)))
    IN  RMul(RMul(I(-1), I(s)), RSub(RSub(term_1, term_2), term_3))

\* crps_gaussian, array branch: one entry of crps_list
crps_point_array(p, s, t) ==
    LET z      == y_standardized(p, s, t)
        term_1 == InvSqrtPi
        term_2 == RMul(I(2), norm_pdf(z))
        term_3 == RMul(z, RSub(RMul(I(2), norm_cdf(z)), I(1)))
    IN  RMul(RMul(I(-1), I(s)), RSub(RSub(term_1, term_2), term_3))

\* crps_gaussian, tensor branch: one entry of crps_list
crps_point_tensor(p, s, t) ==
    LET z      == y_standardized(p, s, t)
        term_1 == InvSqrtPi
        term_2 == RMul(I(2), Normal_log_prob_exp(z))
        term_3 == RMul(z, RSub(RMul(I(2), Normal_cdf(z)), I(1)))
    IN  RMul(RMul(I(-1), I(s)), RSub(RSub(term_1, term_2), term_3))

crps_list_of(be, yp, ys, yt) ==
    [i \in 1..Len(yp) |->
        IF be = "tensor"
        THEN crps_point_tensor(yp[i], ys[i], yt[i])
        ELSE crps_point_array(yp[i], ys[i], yt[i])]

\* check_mask_array with the subtraction reversed: q - (diff >= 0)
check_mask_array_flipped(q, diff) == RSub(q, IF RGe0(diff) THEN I(1) ELSE I(0))

\* check_score, array branch: mask = (diff >= 0).astype(float) - q
check_mask_array(q, diff) == RSub(IF RGe0(diff) THEN I(1) ELSE I(0), q)

\* check_mask_tensor with a strict comparison: (diff > 0)
check_mask_tensor_strict(q, diff) == RSub(IF RGt0(diff) THEN I(1) ELSE I(0), q)

\* check_score, tensor branch: mask = (diff >= 0).float() - test_qs[..., None]
check_mask_tensor(q, diff) == RSub(IF RGe0(diff) THEN I(1) ELSE I(0), q)

\* check_term_array with loc and scale exchanged in the call of ppf
check_term_array_swapped(q, p, s, t) ==
    LET q_level == norm_ppf(q, s, p)
        diff    == RSub(q_level, I(t))
    IN  RMul(check_mask_array(q, diff), diff)

\* check_score, array branch: mask * diff of one point at level q
check_term_array(q, p, s, t) ==
    LET q_level == norm_ppf(q, p, s)
        diff    == RSub(q_level, I(t))
    IN  RMul(check_mask_array(q, diff), diff)

\* check_level_array with np.sum in place of np.mean
check_level_array_sum(q, yp, ys, yt) ==
    sum_fn([i \in 1..Len(yp) |-> check_term_array(q, yp[i], ys[i], yt[i])])

\* check_score, array branch: the body of `for q in test_qs`
check_level_array(q, yp, ys, yt) ==
    np_mean([i \in 1..Len(yp) |-> check_term_array(q, yp[i], ys[i], yt[i])])

\* check_score, tensor branch: one entry of mask * diff
check_term_tensor(q, p, s, t) ==
    LET q_level == Normal_icdf(q, p, s)
        diff    == RSub(q_level, I(t))
    IN  RMul(check_mask_tensor(q, diff), diff)

\* check_score, tensor branch: mask * diff, a resolution x N matrix
check_matrix_tensor(qs, yp, ys, yt) ==
    [k \in 1..Len(qs) |->
        [i \in 1..Len(yp) |-> check_term_tensor(qs[k], yp[i], ys[i], yt[i])]]

\* check_score, tensor branch: score_per_q = mean_fn(mask * diff, 1)
check_list_tensor(qs, yp, ys, yt) == mean_fn_dim1(check_matrix_tensor(qs, yp, ys, yt))

\* interval_score: the p% prediction interval's quantile levels
low_p(p) == RSub(R(1, 2), RDiv(p, I(2)))

high_p(p) == RAdd(R(1, 2), RDiv(p, I(2)))

\* interval_score, array branch: below_l = ((pred_l - y_true) > 0).astype(float)
below_l(pred_l, t) == IF RGt0(RSub(pred_l, I(t))) THEN 1 ELSE 0

\* above_u with the difference reversed: ((pred_u - y_true) > 0)
above_u_reversed(pred_u, t) == IF RGt0(RSub(pred_u, I(t))) THEN 1 ELSE 0

\* interval_score, array branch: above_u = ((y_true - pred_u) > 0).astype(float)
above_u(pred_u, t) == IF RGt0(RSub(I(t), pred_u)) THEN 1 ELSE 0

\* interval_score, array branch: score_per_p of one point, from its interval bounds
score_per_p(p, pred_l, pred_u, t) ==
    LET fac == RDiv(I(2), RSub(I(1), p))
    IN  RAdd(RAdd(RSub(pred_u, pred_l),
                  RMul(RMul(fac, RSub(pred_l, I(t))), I(below_l(pred_l, t)))),
             RMul(RMul(fac, RSub(I(t), pred_u)), I(above_u(pred_u, t))))

\* interval_score, array branch: one point at coverage p
interval_term_array(p, yp, ys, yt) ==
    score_per_p(p, norm_ppf(low_p(p), yp, ys), norm_ppf(high_p(p), yp, ys), yt)

\* interval_score, array branch: the body of `for p in test_ps`
interval_level_array(p, yp, ys, yt) ==
    np_mean([i \in 1..Len(yp) |-> interval_term_array(p, yp[i], ys[i], yt[i])])

\* interval_score, tensor branch: below_ls = ((pred_ls - y_true) > 0).float()
below_ls(pred_l, t) == IF RGt0(RSub(pred_l, I(t))) THEN 1 ELSE 0

\* interval_score, tensor branch: above_us = ((y_true - pred_us) > 0).float()
above_us(pred_u, t) == IF RGt0(RSub(I(t), pred_u)) THEN 1 ELSE 0

\* interval_score, tensor branch: one entry of score_per_ps
score_per_ps(p, pred_l, pred_u, t) ==
    LET fac == RDiv(I(2), RSub(I(1), p))
    IN  RAdd(RAdd(RSub(pred_u, pred_l),
                  RMul(RMul(fac, RSub(pred_l, I(t))), I(below_ls(pred_l, t)))),
             RMul(RMul(fac, RSub(I(t), pred_u)), I(above_us(pred_u, t))))

\* interval_score, tensor branch: one point at coverage p
interval_term_tensor(p, yp, ys, yt) ==
    score_per_ps(p, Normal_icdf(low_p(p), yp, ys), Normal_icdf(high_p(p), yp, ys), yt)

\* interval_score, tensor branch: score_per_ps, a resolution x N matrix
interval_matrix_tensor(ps, yp, ys, yt) ==
    [k \in 1..Len(ps) |->
        [i \in 1..Len(yp) |-> interval_term_tensor(ps[k], yp[i], ys[i], yt[i])]]

\* interval_score, tensor branch: mean_score_per_ps = mean_fn(score_per_ps, 1)
interval_list_tensor(ps, yp, ys, yt) == mean_fn_dim1(interval_matrix_tensor(ps, yp, ys, yt))

\* Scaled with the test of `scaled` inverted
ScaledInverted(x, lst, sc) == IF ~sc THEN RDiv(x, I(Len(lst))) ELSE x

\* `if scaled: x = x / len(list)`
Scaled(x, lst, sc) == IF sc THEN RDiv(x, I(Len(lst))) ELSE x

(***************************************************************************)
(* The four functions as pure operators (be: "array" or "tensor"; yp, ys,  *)
(* yt: the data of y_pred, y_std, y_true; sc: scaled).                     *)
(***************************************************************************)
\* residuals = y_pred - y_true
nll_residuals(yp, yt) == [i \in 1..Len(yp) |-> I(yp[i] - yt[i])]

nll_list_of(be, res, ys) ==
    IF be = "tensor" THEN nll_list_tensor(res, ys) ELSE nll_list_array(res, ys)

\* nll = -1 * sum_fn(nll_list)
nll_total(lst) == RMul(I(-1), sum_fn(lst))

nll_gaussian(be, yp, ys, yt, sc) ==
    LET nll_list == nll_list_of(be, nll_residuals(yp, yt), ys)
    IN  Scaled(nll_total(nll_list), nll_list, sc)

crps_gaussian(be, yp, ys, yt, sc) ==
    LET crps_list == crps_list_of(be, yp, ys, yt)
    IN  Scaled(sum_fn(crps_list), crps_list, sc)

check_list_of(be, qs, yp, ys, yt) ==
    IF be = "tensor"
    THEN check_list_tensor(qs, yp, ys, yt)
    ELSE [k \in 1..Len(qs) |-> check_level_array(qs[k], yp, ys, yt)]

check_score(be, yp, ys, yt, sc, sq, eq, res) ==
    LET check_list == check_list_of(be, linspace(sq, eq, res), yp, ys, yt)
    IN  Scaled(sum_fn(check_list), check_list, sc)

interval_list_of(be, ps, yp, ys, yt) ==
    IF be = "tensor"
    THEN interval_list_tensor(ps, yp, ys, yt)
    ELSE [k \in 1..Len(ps) |-> interval_level_array(ps[k], yp, ys, yt)]

interval_score(be, yp, ys, yt, sc, sp, ep, res) ==
    LET int_list == interval_list_of(be, linspace(sp, ep, res), yp, ys, yt)
    IN  Scaled(sum_fn(int_list), int_list, sc)

(***************************************************************************)
(* One call as a state machine.                                            *)
(***************************************************************************)
VARIABLES
    fn,          \* the function called: "nll", "crps", "check", "interval"
    backend,     \* "tensor" when y_pred is a torch.Tensor, else "array"
    y_pred,      \* the arguments, as given by the caller
    y_std,
    y_true,
    scaled,
    start,       \* start_q / start_p (<< >> for nll and crps)
    stop,        \* end_q / end_p (<< >> for nll and crps)
    resolution,  \* 0 for nll and crps, which have no such argument
    pc,          \* the position in the function body
    residuals,   \* nll_gaussian's residuals; << >> while not computed
    test_qs,     \* test_qs / test_ps; << >> while not computed
    lst,         \* nll_list / crps_list / check_list / int_list
    total,       \* the sum before scaling; << >> while not computed
    ret          \* the returned score; << >> while nothing is returned

vars == << fn, backend, y_pred, y_std, y_true, scaled, start, stop, resolution,
           pc, residuals, test_qs, lst, total, ret >>

args == << fn, backend, y_pred, y_std, y_true, scaled, start, stop, resolution >>

Init ==
    /\ fn \in { "nll", "crps", "check", "interval" }
    /\ backend \in { "array", "tensor" }
    /\ scaled \in BOOLEAN
    /\ \E pts \in Datasets, sh \in ShapeCases :
          /\ y_pred = IF sh = "matrix"
                      THEN Array2D(Column(pts, 1))
                      ELSE Array1D(Column(pts, 1))
          /\ y_std = Array1D(Column(pts, 2))
          /\ y_true = IF sh = "short"
                      THEN Array1D(SubSeq(Column(pts, 3), 1, Len(pts) - 1))
                      ELSE Array1D(Column(pts, 3))
    /\ IF fn \in { "check", "interval" }
       THEN /\ \E g \in GridEnds : start = g[1] /\ stop = g[2]
            /\ resolution \in 1..MaxRes
       ELSE /\ start = << >>
            /\ stop = << >>
            /\ resolution = 0
    /\ pc = "start"
    /\ residuals = << >>
    /\ test_qs = << >>
    /\ lst = << >>
    /\ total = << >>
    /\ ret = << >>

\* AssertStep without the shape check: the function goes on whatever the shapes
AssertStepSkipped(f) ==
    /\ pc = "start"
    /\ fn = f
    /\ pc' = "checked"
    /\ UNCHANGED << args, residuals, test_qs, lst, total, ret >>

\* the first statement of each function: assert_is_flat_same_shape(y_pred, y_std, y_true)
AssertStep(f) ==
    /\ pc = "start"
    /\ fn = f
    /\ pc' = IF assert_is_flat_same_shape(y_pred, y_std, y_true) THEN "checked" ELSE "error"
    /\ UNCHANGED << args, residuals, test_qs, lst, total, ret >>

\* the last statements of each function: scale, return
ReturnStep(f) ==
    /\ pc = "summed"
    /\ fn = f
    /\ ret' = Scaled(total, lst, scaled)
    /\ pc' = "done"
    /\ UNCHANGED << args, residuals, test_qs, lst, total >>

NllAssert == AssertStep("nll")

NllResiduals ==
    /\ pc = "checked"
    /\ fn = "nll"
    /\ residuals' = nll_residuals(y_pred.data, y_true.data)
    /\ pc' = "residuals"
    /\ UNCHANGED << args, test_qs, lst, total, ret >>

NllList ==
    /\ pc = "residuals"
    /\ fn = "nll"
    /\ lst' = nll_list_of(backend, residuals, y_std.data)
    /\ pc' = "listed"
    /\ UNCHANGED << args, residuals, test_qs, total, ret >>

NllSum ==
    /\ pc = "listed"
    /\ fn = "nll"
    /\ total' = nll_total(lst)
    /\ pc' = "summed"
    /\ UNCHANGED << args, residuals, test_qs, lst, ret >>

NllReturn == ReturnStep("nll")

CrpsAssert == AssertStep("crps")

CrpsList ==
    /\ pc = "checked"
    /\ fn = "crps"
    /\ lst' = crps_list_of(backend, y_pred.data, y_std.data, y_true.data)
    /\ pc' = "listed"
    /\ UNCHANGED << args, residuals, test_qs, total, ret >>

CrpsSum ==
    /\ pc = "listed"
    /\ fn = "crps"
    /\ total' = sum_fn(lst)
    /\ pc' = "summed"
    /\ UNCHANGED << args, residuals, test_qs, lst, ret >>

CrpsReturn == ReturnStep("crps")

CheckAssert == AssertStep("check")

CheckGrid ==
    /\ pc = "checked"
    /\ fn = "check"
    /\ test_qs' = linspace(start, stop, resolution)
    /\ pc' = "grid"
    /\ UNCHANGED << args, residuals, lst, total, ret >>

CheckTensor ==
    /\ pc = "grid"
    /\ fn = "check"
    /\ backend = "tensor"
    /\ lst' = check_list_tensor(test_qs, y_pred.data, y_std.data, y_true.data)
    /\ pc' = "listed"
    /\ UNCHANGED << args, residuals, test_qs, total, ret >>

\* one iteration of `for q in test_qs`
CheckLoop ==
    /\ pc = "grid"
    /\ fn = "check"
    /\ backend = "array"
    /\ Len(lst) < Len(test_qs)
    /\ lst' = Append(lst, check_level_array(test_qs[Len(lst) + 1],
                                            y_pred.data, y_std.data, y_true.data))
    /\ pc' = IF Len(lst') = Len(test_qs) THEN "listed" ELSE "grid"
    /\ UNCHANGED << args, residuals, test_qs, total, ret >>

CheckSum ==
    /\ pc = "listed"
    /\ fn = "check"
    /\ total' = sum_fn(lst)
    /\ pc' = "summed"
    /\ UNCHANGED << args, residuals, test_qs, lst, ret >>

CheckReturn == ReturnStep("check")

IntervalAssert == AssertStep("interval")

IntervalGrid ==
    /\ pc = "checked"
    /\ fn = "interval"
    /\ test_qs' = linspace(start, stop, resolution)
    /\ pc' = "grid"
    /\ UNCHANGED << args, residuals, lst, total, ret >>

IntervalTensor ==
    /\ pc = "grid"
    /\ fn = "interval"
    /\ backend = "tensor"
    /\ lst' = interval_list_tensor(test_qs, y_pred.data, y_std.data, y_true.data)
    /\ pc' = "listed"
    /\ UNCHANGED << args, residuals, test_qs, total, ret >>

\* one iteration of `for p in test_ps`
IntervalLoop ==
    /\ pc = "grid"
    /\ fn = "interval"
    /\ backend = "array"
    /\ Len(lst) < Len(test_qs)
    /\ lst' = Append(lst, interval_level_array(test_qs[Len(lst) + 1],
                                               y_pred.data, y_std.data, y_true.data))
    /\ pc' = IF Len(lst') = Len(test_qs) THEN "listed" ELSE "grid"
    /\ UNCHANGED << args, residuals, test_qs, total, ret >>

IntervalSum ==
    /\ pc = "listed"
    /\ fn = "interval"
    /\ total' = sum_fn(lst)
    /\ pc' = "summed"
    /\ UNCHANGED << args, residuals, test_qs, lst, ret >>

IntervalReturn == ReturnStep("interval")

Next ==
    \/ NllAssert
    \/ NllResiduals
    \/ NllList
    \/ NllSum
    \/ NllReturn
    \/ CrpsAssert
    \/ CrpsList
    \/ CrpsSum
    \/ CrpsReturn
    \/ CheckAssert
    \/ CheckGrid
    \/ CheckTensor
    \/ CheckLoop
    \/ CheckSum
    \/ CheckReturn
    \/ IntervalAssert
    \/ IntervalGrid
    \/ IntervalTensor
    \/ IntervalLoop
    \/ IntervalSum
    \/ IntervalReturn

Spec == Init /\ [][Next]_vars

(***************************************************************************)
(* Properties.                                                             *)
(***************************************************************************)
N == Len(y_pred.data)

Returned == pc = "done"

\* the state machine returns what the pure operators compute
ReturnsOperatorValue ==
    Returned =>
        ret = CASE fn = "nll" ->
                     nll_gaussian(backend, y_pred.data, y_std.data, y_true.data, scaled)
                [] fn = "crps" ->
                     crps_gaussian(backend, y_pred.data, y_std.data, y_true.data, scaled)
                [] fn = "check" ->
                     check_score(backend, y_pred.data, y_std.data, y_true.data, scaled,
                                 start, stop, resolution)
                [] fn = "interval" ->
                     interval_score(backend, y_pred.data, y_std.data, y_true.data, scaled,
                                    start, stop, resolution)

Pts == 1..N

Levels == 1..Len(test_qs)

ShapesOk == assert_is_flat_same_shape(y_pred, y_std, y_true)

Gridded == fn \in { "check", "interval" } /\ test_qs # << >>

\* the predictive quantile of point i at level q, as the branch taken computes it
Quantile(q, i) ==
    IF backend = "tensor"
    THEN Normal_icdf(q, y_pred.data[i], y_std.data[i])
    ELSE norm_ppf(q, y_pred.data[i], y_std.data[i])

\* check_score: diff of point i at grid level k, and the mask of a diff at level k
CheckDiff(k, i) == RSub(Quantile(test_qs[k], i), I(y_true.data[i]))

CheckMask(k, diff) ==
    IF backend = "tensor"
    THEN check_mask_tensor(test_qs[k], diff)
    ELSE check_mask_array(test_qs[k], diff)

\* the contribution of point i at grid level k, as the branch taken computes it
Term(k, i) ==
    CASE fn = "check" /\ backend = "tensor" ->
           check_term_tensor(test_qs[k], y_pred.data[i], y_std.data[i], y_true.data[i])
      [] fn = "check" /\ backend = "array" ->
           check_term_array(test_qs[k], y_pred.data[i], y_std.data[i], y_true.data[i])
      [] fn = "interval" /\ backend = "tensor" ->
           interval_term_tensor(test_qs[k], y_pred.data[i], y_std.data[i], y_true.data[i])
      [] fn = "interval" /\ backend = "array" ->
           interval_term_array(test_qs[k], y_pred.data[i], y_std.data[i], y_true.data[i])

\* interval_score: the bounds and indicators of point i at grid value k
PredL(k, i) == Quantile(low_p(test_qs[k]), i)

PredU(k, i) == Quantile(high_p(test_qs[k]), i)

\* the indicators of point i, from its lower bound l and its upper bound u
Below(l, i) ==
    IF backend = "tensor" THEN below_ls(l, y_true.data[i]) ELSE below_l(l, y_true.data[i])

Above(u, i) ==
    IF backend = "tensor" THEN above_us(u, y_true.data[i]) ELSE above_u(u, y_true.data[i])

Factor(k) == RDiv(I(2), RSub(I(1), test_qs[k]))

OtherBackend == IF backend = "tensor" THEN "array" ELSE "tensor"

NothingComputed ==
    /\ residuals = << >>
    /\ test_qs = << >>
    /\ lst = << >>
    /\ total = << >>
    /\ ret = << >>

(* C1: in each of the four functions the flat/same-shape check runs first: *)
(* with inputs that are not all one-dimensional and of one shape the call  *)
(* ends in the shape error, and no residual, grid, per-point value, sum or *)
(* score is ever computed or returned.                                     *)
C1_ShapeCheckFirst ==
    /\ pc = "start" => NothingComputed
    /\ ~ShapesOk => pc \in { "start", "error" } /\ NothingComputed
    /\ pc = "error" => ~ShapesOk

C1_Witness ==
    /\ pc = "error"
    /\ fn = "check"
    /\ Len(y_true.data) < Len(y_pred.data)

C3_ScaledByN ==
    Returned => ret = IF scaled THEN RDiv(total, I(N)) ELSE total

(* C4 as stated: check_score and interval_score take the `resolution` grid *)
(* levels in order from start to end with both ends included, average the  *)
(* contributions over the N points per level, sum the per-level means, and *)
(* with scaled=true divide the sum by resolution.                          *)
C4_Reduction(ends) ==
    fn \in { "check", "interval" } =>
        /\ test_qs # << >> =>
              /\ Len(test_qs) = resolution
              /\ test_qs[1] = start
              /\ ends
              /\ \A k \in 1..(resolution - 1) : RLe(test_qs[k], test_qs[k + 1])
              /\ \A k \in 1..(resolution - 2) :
                    RSub(test_qs[k + 1], test_qs[k]) = RSub(test_qs[k + 2], test_qs[k + 1])
        /\ Len(lst) <= resolution
        /\ pc \in { "grid", "listed" } =>
              \A k \in 1..Len(lst) :
                 RMul(I(N), lst[k]) = sum_fn([i \in Pts |-> Term(k, i)])
        /\ pc \in { "listed", "summed", "done" } => Len(lst) = resolution
        /\ total # << >> => total = sum_fn(lst)
        /\ Returned => ret = IF scaled THEN RDiv(total, I(resolution)) ELSE total

C5_NonNegative ==
    fn \in { "check", "interval" } =>
        /\ pc = "listed" =>
              \A k \in Levels, i \in Pts :
                 /\ RGe0(Term(k, i))
                 /\ fn = "check" =>
                       \A diff \in { CheckDiff(k, i) } :
                          CheckMask(k, diff) = IF RGe0(diff)
                                               THEN RSub(I(1), test_qs[k])
                                               ELSE RNeg(test_qs[k])
                 /\ fn = "interval" =>
                       RLe(PredL(k, i), PredU(k, i)) /\ RGt0(Factor(k))
        /\ \A k \in 1..Len(lst) : RGe0(lst[k])
        /\ total # << >> => RGe0(total)
        /\ ret # << >> => RGe0(ret)

C5_Witness ==
    /\ Returned
    /\ fn = "check"
    /\ backend = "array"
    /\ RGt0(ret)
    /\ \E k \in Levels, i \in Pts : ~RGe0(CheckDiff(k, i))
    /\ \E k \in Levels, i \in Pts : RGt0(CheckDiff(k, i))

C6_Input ==
    /\ fn = "crps"
    /\ scaled
    /\ y_pred.data = << 0, 0, 0 >>
    /\ y_std.data = << 1, 1, 1 >>
    /\ y_true.data = << 0, 0, 0 >>

(* C6 as stated: for y_pred=[0,0,0], y_std=[1,1,1], y_true=[0,0,0]         *)
(* crps_gaussian (scaled) returns 1/sqrt(pi).                              *)
C6_ReturnsInvSqrtPi == (Returned /\ C6_Input) => ret = InvSqrtPi

(* C6 amended: for that input crps_gaussian (scaled) returns               *)
(* 2*phi(0) - 1/sqrt(pi) = (sqrt(2)-1)/sqrt(pi), about 0.2337, each point  *)
(* being -y_std * (1/sqrt(pi) - 2*phi(0) - 0).                             *)
C6_ReturnsCrpsAtZero ==
    C6_Input =>
        /\ \A i \in 1..Len(lst) : lst[i] = RSub(RMul(I(2), StdPdf(I(0))), InvSqrtPi)
        /\ Returned => /\ ret = RSub(RMul(I(2), StdPdf(I(0))), InvSqrtPi)
                       /\ ret = R(2336, 10000)

C6_Witness == Returned /\ C6_Input /\ backend = "array"

C8_BranchesAgree ==
    LET yp == y_pred.data
        ys == y_std.data
        yt == y_true.data
    IN  /\ (Gridded /\ pc = "listed") =>
              \A k \in Levels, i \in Pts :
                 /\ fn = "check" =>
                       \A d_a \in { RSub(norm_ppf(test_qs[k], yp[i], ys[i]), I(yt[i])) },
                          d_t \in { RSub(Normal_icdf(test_qs[k], yp[i], ys[i]), I(yt[i])) } :
                          /\ d_a = d_t
                          /\ check_mask_array(test_qs[k], d_a)
                                = check_mask_tensor(test_qs[k], d_t)
                 /\ fn = "interval" =>
                       \A l_a \in { norm_ppf(low_p(test_qs[k]), yp[i], ys[i]) },
                          l_t \in { Normal_icdf(low_p(test_qs[k]), yp[i], ys[i]) },
                          u_a \in { norm_ppf(high_p(test_qs[k]), yp[i], ys[i]) },
                          u_t \in { Normal_icdf(high_p(test_qs[k]), yp[i], ys[i]) } :
                          /\ l_a = l_t
                          /\ u_a = u_t
                          /\ below_l(l_a, yt[i]) = below_ls(l_t, yt[i])
                          /\ above_u(u_a, yt[i]) = above_us(u_t, yt[i])
        /\ pc = "listed" =>
              lst = CASE fn = "nll" -> nll_list_of(OtherBackend, residuals, ys)
                      [] fn = "crps" -> crps_list_of(OtherBackend, yp, ys, yt)
                      [] fn = "check" -> check_list_of(OtherBackend, test_qs, yp, ys, yt)
                      [] fn = "interval" ->
                           interval_list_of(OtherBackend, test_qs, yp, ys, yt)
        /\ Returned =>
              ret = CASE fn = "nll" -> nll_gaussian(OtherBackend, yp, ys, yt, scaled)
                      [] fn = "crps" -> crps_gaussian(OtherBackend, yp, ys, yt, scaled)
                      [] fn = "check" ->
                           check_score(OtherBackend, yp, ys, yt, scaled,
                                       start, stop, resolution)
                      [] fn = "interval" ->
                           interval_score(OtherBackend, yp, ys, yt, scaled,
                                          start, stop, resolution)

C8_Witness ==
    /\ Returned
    /\ fn = "check"
    /\ backend = "tensor"
    /\ resolution = 2
    /\ N = 2
    /\ \E k \in Levels, i \in Pts : CheckDiff(k, i) = I(0)
    /\ \E k \in Levels, i \in Pts : RGt0(CheckDiff(k, i))

(* C9: crps_gaussian is symmetric in the sign of the residual: exchanging  *)
(* y_pred and y_true, y_std unchanged, leaves the score unchanged.         *)
C9_CrpsSymmetric ==
    (Returned /\ fn = "crps") =>
        ret = crps_gaussian(backend, y_true.data, y_std.data, y_pred.data, scaled)

C9_Witness ==
    /\ Returned
    /\ fn = "crps"
    /\ backend = "array"
    /\ \E i \in Pts : y_true.data[i] > y_pred.data[i]
    /\ \E i \in Pts : y_true.data[i] < y_pred.data[i]

(* C10: in interval_score the below and above indicators of a point are    *)
(* never both 1; a point with pred_l <= y_true <= pred_u contributes the   *)
(* width pred_u - pred_l, and a point outside contributes the width plus   *)
(* one penalty, 2/(1-p) times its distance to the nearer bound.            *)
C10_IntervalTerm ==
    (fn = "interval" /\ pc = "listed") =>
        \A k \in Levels, i \in Pts :
            \A t \in { I(y_true.data[i]) }, l \in { PredL(k, i) }, u \in { PredU(k, i) },
               term \in { Term(k, i) }, fac \in { Factor(k) } :
                /\ RLe(l, u)
                /\ ~(Below(l, i) = 1 /\ Above(u, i) = 1)
                /\ (RLe(l, t) /\ RLe(t, u)) =>
                      /\ Below(l, i) = 0
                      /\ Above(u, i) = 0
                      /\ term = RSub(u, l)
                /\ ~RLe(l, t) =>
                      /\ Below(l, i) = 1
                      /\ term = RAdd(RSub(u, l), RMul(fac, RSub(l, t)))
                /\ ~RLe(t, u) =>
                      /\ Above(u, i) = 1
                      /\ term = RAdd(RSub(u, l), RMul(fac, RSub(t, u)))

C10_Witness ==
    /\ pc = "listed"
    /\ fn = "interval"
    /\ backend = "array"
    /\ \E k \in Levels, i \in Pts : PredU(k, i) = I(y_true.data[i])
    /\ \E k \in Levels, i \in Pts : Below(PredL(k, i), i) = 1
    /\ \E k \in Levels, i \in Pts : Above(PredU(k, i), i) = 1

=============================================================================
